---------------------------- MODULE Spec2Model ----------------------------
(***************************************************************************)
(* A model of the entity repository CpaRepositoryImpl<Entity, ID> over the *)
(* Blob Store ArduinoFileManager (ESP32 Preferences build).                *)
(*                                                                         *)
(* Texts are sequences of one-character strings.  A store is a function    *)
(* from blob names to texts; a name outside its domain is an absent key.   *)
(* An entity is a record [pk, data]: pk is its primary key or NoKey (the   *)
(* empty optional), data is the text its Serialize() yields.               *)
(***************************************************************************)
EXTENDS Integers, Sequences, FiniteSets

\* ------------------------------------------------------------- bounds
\* IDs range over 1..MaxId.
MaxId == 2
\* Longest index text of an arbitrary (possibly out-of-band) start state.
MaxIdxLen == 3
Ids == 1..MaxId
NoKey == 0
LF == "\n"
CR == "\r"
\* The serialized texts entities carry: empty, and two different non-empty.
Data == {<<>>, <<"a">>, <<"b">>}
Entities == [pk : Ids \cup {NoKey}, data : Data]
\* Which Blob Store calls of one operation fail (by position in the
\* operation's call sequence); the empty set is the store working.
NoFault == {}
\* The first call of Save, Update and DeleteById is the one on the entity blob.
EntityCallFails == {1}
Faults == {NoFault, EntityCallFails}

\* ------------------------------------------------------------- texts
Digits == <<"0", "1", "2", "3", "4", "5", "6", "7", "8", "9">>
DigitVal(c) == (CHOOSE d \in 1..10 : Digits[d] = c) - 1

\* std::to_string(id) for a non-negative id (the IDs here are positive).
RECURSIVE ToString(_)
ToString(n) ==
    IF n < 10 THEN <<Digits[n + 1]>>
    ELSE ToString(n \div 10) \o <<Digits[(n % 10) + 1]>>

\* std::stoll on a token of decimal digits.
RECURSIVE Stoll(_)
Stoll(tok) ==
    IF Len(tok) = 0 THEN 0
    ELSE Stoll(SubSeq(tok, 1, Len(tok) - 1)) * 10 + DigitVal(tok[Len(tok)])

\* Entity::Serialize / Entity::Deserialize: supplied by the entity type.
Serialize(e) == e.data
Deserialize(contents) == [content |-> contents]
\* optional<Entity>: the empty optional, and one holding an entity.
NullOpt == <<>>
Some(entity) == <<entity>>

\* ------------------------------------------------------------- names
DATABASE_PATH == "/Users/nkurude/db"
TableName == "User"
PrimaryKeyName == "id"
GetIdsFilePath == <<DATABASE_PATH, "/", TableName, "_IDs.txt">>
\* One entity blob name for every ID.
GetFilePathNoId(id) ==
    <<DATABASE_PATH, "/", TableName, "_", PrimaryKeyName, "_", ".txt">>

GetFilePath(id) ==
    <<DATABASE_PATH, "/", TableName, "_", PrimaryKeyName, "_">>
    \o ToString(id) \o <<".txt">>

\* ------------------------------------------------------------- Blob Store
Put(st, name, contents) ==
    [n \in (DOMAIN st) \cup {name} |-> IF n = name THEN contents ELSE st[n]]
Remove(st, name) == [n \in (DOMAIN st) \ {name} |-> st[n]]
GetString(st, name) == IF name \in DOMAIN st THEN st[name] ELSE <<>>

\* Each operation takes ok: whether preferences.begin succeeded.
\* Results are [st: the store afterwards, ret: the returned value].
FmCreate(st, name, contents, ok) ==
    IF ok THEN [st |-> Put(st, name, contents), ret |-> Len(contents) > 0]
    ELSE [st |-> st, ret |-> FALSE]

FmRead(st, name, ok) == IF ok THEN GetString(st, name) ELSE <<>>

\* Update adding to the blob instead of overwriting it.
FmUpdateAppends(st, name, contents, ok) ==
    FmCreate(st, name, GetString(st, name) \o contents, ok)

FmUpdate(st, name, contents, ok) == FmCreate(st, name, contents, ok)

FmDelete(st, name, ok) ==
    IF ok THEN [st |-> Remove(st, name), ret |-> name \in DOMAIN st]
    ELSE [st |-> st, ret |-> FALSE]

\* Append writing only the new contents.
FmAppendOverwrites(st, name, contents, ok) == FmCreate(st, name, contents, ok)

FmAppend(st, name, contents, ok) ==
    IF ok
    THEN LET newContent == GetString(st, name) \o contents
         IN [st |-> Put(st, name, newContent), ret |-> Len(newContent) > 0]
    ELSE [st |-> st, ret |-> FALSE]

\* ------------------------------------------------------------- index text
\* A scan that drops a last token without terminator.
RECURSIVE ScanIdsNoTrailing(_, _, _, _)
ScanIdsNoTrailing(contents, i, currentId, ids) ==
    IF i > Len(contents)
    THEN ids
    ELSE IF contents[i] = LF \/ contents[i] = CR
         THEN IF currentId # <<>>
              THEN ScanIdsNoTrailing(contents, i + 1, <<>>,
                                     Append(ids, Stoll(currentId)))
              ELSE ScanIdsNoTrailing(contents, i + 1, <<>>, ids)
         ELSE ScanIdsNoTrailing(contents, i + 1, Append(currentId, contents[i]), ids)

\* The scan of ReadAllIds from position i with the token and IDs so far.
RECURSIVE ScanIds(_, _, _, _)
ScanIds(contents, i, currentId, ids) ==
    IF i > Len(contents)
    THEN IF currentId # <<>> THEN Append(ids, Stoll(currentId)) ELSE ids
    ELSE IF contents[i] = LF \/ contents[i] = CR
         THEN IF currentId # <<>>
              THEN ScanIds(contents, i + 1, <<>>, Append(ids, Stoll(currentId)))
              ELSE ScanIds(contents, i + 1, <<>>, ids)
         ELSE ScanIds(contents, i + 1, Append(currentId, contents[i]), ids)

ParseIds(contents) == ScanIds(contents, 1, <<>>, <<>>)

\* An index text whose last line is left without terminator.
RECURSIVE FormatIdsNoLastNewline(_)
FormatIdsNoLastNewline(ids) ==
    IF ids = <<>> THEN <<>>
    ELSE IF Len(ids) = 1 THEN ToString(Head(ids))
    ELSE ToString(Head(ids)) \o <<LF>> \o FormatIdsNoLastNewline(Tail(ids))

\* The text WriteAllIds builds.
RECURSIVE FormatIds(_)
FormatIds(ids) ==
    IF ids = <<>> THEN <<>>
    ELSE ToString(Head(ids)) \o <<LF>> \o FormatIds(Tail(ids))

ReadAllIds(st, ok) == ParseIds(FmRead(st, GetIdsFilePath, ok))

\* WriteAllIds leaving the last line without terminator.
WriteAllIdsNoLastNewline(st, ids, ok) ==
    FmCreate(st, GetIdsFilePath, FormatIdsNoLastNewline(ids), ok).st

WriteAllIds(st, ids, ok) == FmCreate(st, GetIdsFilePath, FormatIds(ids), ok).st

\* IdExistsInFile returning after the first loop iteration.
IdExistsFirstOnly(st, id, ok) ==
    LET ids == ReadAllIds(st, ok)
    IN Len(ids) > 0 /\ ids[1] = id

IdExistsInFile(st, id, ok) ==
    LET ids == ReadAllIds(st, ok)
    IN \E i \in 1..Len(ids) : ids[i] = id

\* ------------------------------------------------------------- repository
\* A Blob Store call as logged: its kind and the blob it names.
Call(kind, name) == [call |-> kind, name |-> name]
\* Results are [st: the store afterwards, ret: the returned value,
\* log: the Blob Store calls issued, in order].

\* Save's index text without its line terminator.
SaveIdStrNoNewline(id) == ToString(id)

\* The text Save appends to the index.
SaveIdStr(id) == ToString(id) \o <<LF>>

\* Save that leaves an existing entity blob as it is.
SaveNoOverwrite(st, entity, f) ==
    IF entity.pk = NoKey
    THEN [st |-> st, ret |-> entity, log |-> <<>>]
    ELSE LET id == entity.pk
             s1 == IF GetFilePath(id) \in DOMAIN st THEN st
                   ELSE FmCreate(st, GetFilePath(id), Serialize(entity),
                                 1 \notin f).st
             exists == IdExistsInFile(s1, id, 2 \notin f)
             s2 == IF exists THEN s1
                   ELSE FmAppend(s1, GetIdsFilePath, SaveIdStr(id), 3 \notin f).st
         IN [st |-> s2, ret |-> entity,
             log |-> <<Call("Create", GetFilePath(id)), Call("Read", GetIdsFilePath)>>
                     \o (IF exists THEN <<>>
                         ELSE <<Call("Append", GetIdsFilePath)>>)]

\* Save without the has_value() test: an absent key is taken as the value 0.
SaveNoKeyCheck(st, entity, f) ==
    LET id == entity.pk
        s1 == FmCreate(st, GetFilePath(id), Serialize(entity), 1 \notin f).st
        exists == IdExistsInFile(s1, id, 2 \notin f)
        s2 == IF exists THEN s1
              ELSE FmAppend(s1, GetIdsFilePath, SaveIdStr(id), 3 \notin f).st
    IN [st |-> s2, ret |-> entity,
        log |-> <<Call("Create", GetFilePath(id)), Call("Read", GetIdsFilePath)>>
                \o (IF exists THEN <<>> ELSE <<Call("Append", GetIdsFilePath)>>)]

\* Save appending to the index without the membership test.
SaveAlwaysAppends(st, entity, f) ==
    IF entity.pk = NoKey
    THEN [st |-> st, ret |-> entity, log |-> <<>>]
    ELSE LET id == entity.pk
             s1 == FmCreate(st, GetFilePath(id), Serialize(entity), 1 \notin f).st
             s2 == FmAppend(s1, GetIdsFilePath, SaveIdStr(id), 3 \notin f).st
         IN [st |-> s2, ret |-> entity,
             log |-> <<Call("Create", GetFilePath(id)), Call("Read", GetIdsFilePath),
                       Call("Append", GetIdsFilePath)>>]

Save(st, entity, f) ==
    IF entity.pk = NoKey
    THEN [st |-> st, ret |-> entity, log |-> <<>>]
    ELSE LET id == entity.pk
             s1 == FmCreate(st, GetFilePath(id), Serialize(entity), 1 \notin f).st
             exists == IdExistsInFile(s1, id, 2 \notin f)
             s2 == IF exists THEN s1
                   ELSE FmAppend(s1, GetIdsFilePath, SaveIdStr(id), 3 \notin f).st
         IN [st |-> s2, ret |-> entity,
             log |-> <<Call("Create", GetFilePath(id)), Call("Read", GetIdsFilePath)>>
                     \o (IF exists THEN <<>>
                         ELSE <<Call("Append", GetIdsFilePath)>>)]

FindById(st, id, f) ==
    LET contents == FmRead(st, GetFilePath(id), 1 \notin f)
    IN [st |-> st,
        ret |-> IF contents = <<>> THEN NullOpt ELSE Some(Deserialize(contents)),
        log |-> <<Call("Read", GetFilePath(id))>>]

\* The FindAll loop without the contents.empty() test.
RECURSIVE CollectUnchecked(_, _, _)
CollectUnchecked(st, ids, ok) ==
    IF ids = <<>> THEN <<>>
    ELSE <<Deserialize(FmRead(st, GetFilePath(Head(ids)), ok))>>
         \o CollectUnchecked(st, Tail(ids), ok)

\* The entities FindAll collects for the IDs ids[i..], in order.
RECURSIVE CollectEntities(_, _, _)
CollectEntities(st, ids, ok) ==
    IF ids = <<>> THEN <<>>
    ELSE LET contents == FmRead(st, GetFilePath(Head(ids)), ok)
         IN (IF contents # <<>> THEN <<Deserialize(contents)>> ELSE <<>>)
            \o CollectEntities(st, Tail(ids), ok)

\* FindAll that writes the IDs it parsed back to the index.
FindAllRewritesIndex(st, f) ==
    LET ids == ReadAllIds(st, 1 \notin f)
    IN [st |-> WriteAllIds(st, ids, 1 \notin f),
        ret |-> CollectEntities(st, ids, 2 \notin f),
        log |-> <<Call("Read", GetIdsFilePath)>>
                \o [i \in 1..Len(ids) |-> Call("Read", GetFilePath(ids[i]))]
                \o <<Call("Create", GetIdsFilePath)>>]

FindAll(st, f) ==
    LET ids == ReadAllIds(st, 1 \notin f)
    IN [st |-> st,
        ret |-> CollectEntities(st, ids, 2 \notin f),
        log |-> <<Call("Read", GetIdsFilePath)>>
                \o [i \in 1..Len(ids) |-> Call("Read", GetFilePath(ids[i]))]]

\* Update's index text always led by a terminator.
UpdateIdStrAlwaysNewline(currentContents, entityId) ==
    <<LF>> \o ToString(entityId) \o <<LF>>

\* Update's index text never led by a terminator (as Save's).
UpdateIdStrNoGuard(currentContents, entityId) == ToString(entityId) \o <<LF>>

\* Update's index text left without its line terminator.
UpdateIdStrNoNewline(currentContents, entityId) == ToString(entityId)

\* The text Update appends to the index, given the index text it read.
UpdateIdStr(currentContents, entityId) ==
    IF currentContents = <<>> THEN ToString(entityId) \o <<LF>>
    ELSE IF currentContents[Len(currentContents)] # LF
            /\ currentContents[Len(currentContents)] # CR
         THEN <<LF>> \o ToString(entityId) \o <<LF>>
         ELSE ToString(entityId) \o <<LF>>

\* Update that returns when the Blob Store reports the entity write failed.
UpdateChecked(st, entity, f) ==
    IF entity.pk = NoKey
    THEN [st |-> st, ret |-> entity, log |-> <<>>]
    ELSE LET entityId == entity.pk
             w == FmUpdate(st, GetFilePath(entityId), Serialize(entity), 1 \notin f)
             s1 == w.st
             exists == ~w.ret \/ IdExistsInFile(s1, entityId, 2 \notin f)
             currentContents == FmRead(s1, GetIdsFilePath, 3 \notin f)
             s2 == IF exists THEN s1
                   ELSE FmAppend(s1, GetIdsFilePath,
                                 UpdateIdStr(currentContents, entityId),
                                 4 \notin f).st
         IN [st |-> s2, ret |-> entity,
             log |-> <<Call("Update", GetFilePath(entityId))>>]

Update(st, entity, f) ==
    IF entity.pk = NoKey
    THEN [st |-> st, ret |-> entity, log |-> <<>>]
    ELSE LET entityId == entity.pk
             s1 == FmUpdate(st, GetFilePath(entityId), Serialize(entity),
                            1 \notin f).st
             exists == IdExistsInFile(s1, entityId, 2 \notin f)
             currentContents == FmRead(s1, GetIdsFilePath, 3 \notin f)
             s2 == IF exists THEN s1
                   ELSE FmAppend(s1, GetIdsFilePath,
                                 UpdateIdStr(currentContents, entityId),
                                 4 \notin f).st
         IN [st |-> s2, ret |-> entity,
             log |-> <<Call("Update", GetFilePath(entityId)),
                       Call("Read", GetIdsFilePath)>>
                     \o (IF exists THEN <<>>
                         ELSE <<Call("Read", GetIdsFilePath),
                                Call("Append", GetIdsFilePath)>>)]

\* A filter that also drops the ID after the one to remove.
FilterIdsAndNext(ids, id) ==
    LET keep(i) == ids[i] # id /\ (i = 1 \/ ids[i - 1] # id)
        F[i \in 0..Len(ids)] ==
            IF i = 0 THEN <<>>
            ELSE IF keep(i) THEN Append(F[i - 1], ids[i]) ELSE F[i - 1]
    IN F[Len(ids)]

\* The IDs DeleteById keeps.
FilterIds(ids, id) == SelectSeq(ids, LAMBDA existingId : existingId # id)

\* DeleteById that removes the entity blob and leaves the index.
DeleteByIdBlobOnly(st, id, f) ==
    [st |-> FmDelete(st, GetFilePath(id), 1 \notin f).st, ret |-> "void",
     log |-> <<Call("Delete", GetFilePath(id))>>]

DeleteById(st, id, f) ==
    LET s1 == FmDelete(st, GetFilePath(id), 1 \notin f).st
        ids == ReadAllIds(s1, 2 \notin f)
        s2 == WriteAllIds(s1, FilterIds(ids, id), 3 \notin f)
    IN [st |-> s2, ret |-> "void",
        log |-> <<Call("Delete", GetFilePath(id)), Call("Read", GetIdsFilePath),
                  Call("Create", GetIdsFilePath)>>]

Delete(st, entity, f) ==
    IF entity.pk = NoKey
    THEN [st |-> st, ret |-> "void", log |-> <<>>]
    ELSE DeleteById(st, entity.pk, f)

\* ExistsById answered from the index.
ExistsByIdFromIndex(st, id, f) ==
    [st |-> st, ret |-> IdExistsInFile(st, id, 1 \notin f),
     log |-> <<Call("Read", GetIdsFilePath)>>]

ExistsById(st, id, f) ==
    LET contents == FmRead(st, GetFilePath(id), 1 \notin f)
    IN [st |-> st, ret |-> contents # <<>>,
        log |-> <<Call("Read", GetFilePath(id))>>]

\* ------------------------------------------------------------- state
VARIABLES
    store,   \* the Blob Store: blob name -> text
    last,    \* the last repository call: op, arg, fault, ret, log, pre (store before)
    ghost,   \* the table as the caller knows it (history, not program state)
    grow,    \* the IDs Save was called with, and those Update was called with
    proc,    \* each concurrent caller's position in its call, and its locals
    race,    \* what the concurrent callers did to the index (history)
    preferences  \* the file manager's one Preferences member: session begun, read-only

vars == <<store, last, ghost, grow, proc, race, preferences>>

EmptyStore == <<>>
NoCall == [op |-> "none", arg |-> NoKey, fault |-> NoFault, ret |-> "void",
           log |-> <<>>, pre |-> EmptyStore]

\* ghost.order: IDs in the order they were first persisted and not deleted
\* since; ghost.cur: the text last written for each of them;
\* ghost.updated: an Update with a key was called;
\* ghost.deleted: a delete was called; ghost.resaved: a Save after a delete.
NoGhost == [order |-> <<>>, cur |-> <<>>, updated |-> FALSE, deleted |-> FALSE,
            resaved |-> FALSE]
\* grow.updFirst: the IDs whose first Update came before their first Save.
NoGrow == [saved |-> {}, upd |-> {}, updFirst |-> {}]

\* The concurrent callers, and a caller between calls.
Procs == {1, 2}
Idle == [pc |-> "idle", id |-> NoKey, data |-> <<>>, ids |-> <<>>,
         existing |-> <<>>]
\* race.saved: the IDs a Save completed for; race.deleting: the IDs a
\* DeleteById was begun for; race.stale: some caller wrote the index back
\* from a read the index no longer matched; race.collided: a Blob Store call
\* began a Preferences session while the other caller's was begun.
NoSession == [started |-> FALSE, readOnly |-> FALSE]
NoRace == [saved |-> {}, deleting |-> {}, stale |-> FALSE, collided |-> FALSE]

InSeq(x, s) == \E i \in 1..Len(s) : s[i] = x
SeqSet(s) == {s[i] : i \in 1..Len(s)}
NoDup(s) == \A i, j \in 1..Len(s) : s[i] = s[j] => i = j

GhostPut(g, e) ==
    [g EXCEPT !.order = IF InSeq(e.pk, g.order) THEN g.order
                        ELSE Append(g.order, e.pk),
              !.cur = Put(g.cur, e.pk, e.data)]

GhostRemove(g, id) ==
    [g EXCEPT !.order = FilterIds(g.order, id),
              !.cur = Remove(g.cur, id),
              !.deleted = TRUE]

Record(op, arg, f, r) ==
    [op |-> op, arg |-> arg, fault |-> f, ret |-> r.ret, log |-> r.log,
     pre |-> store]

Init ==
    /\ store = EmptyStore
    /\ last = NoCall
    /\ ghost = NoGhost
    /\ grow = NoGrow
    /\ proc = [p \in Procs |-> Idle]
    /\ race = NoRace
    /\ preferences = NoSession

\* ------------------------------------------------------------- operations
\* A repository call with the Blob Store calls in f failing: the store
\* becomes what the operation leaves, and the call is recorded.
DoSave(e, f) ==
    LET r == Save(store, e, f)
    IN store' = r.st /\ last' = Record("Save", e, f, r)

DoUpdate(e, f) ==
    LET r == Update(store, e, f)
    IN store' = r.st /\ last' = Record("Update", e, f, r)

DoDeleteById(id, f) ==
    LET r == DeleteById(store, id, f)
    IN store' = r.st /\ last' = Record("DeleteById", id, f, r)

DoDelete(e, f) ==
    LET r == Delete(store, e, f)
    IN store' = r.st /\ last' = Record("Delete", e, f, r)

DoFindById(id, f) ==
    LET r == FindById(store, id, f)
    IN store' = r.st /\ last' = Record("FindById", id, f, r)

DoFindAll(f) ==
    LET r == FindAll(store, f)
    IN store' = r.st /\ last' = Record("FindAll", NoKey, f, r)

DoExistsById(id, f) ==
    LET r == ExistsById(store, id, f)
    IN store' = r.st /\ last' = Record("ExistsById", id, f, r)

\* ------------------------------------------------------------- Spec
\* Sequential calls on one table from the empty store, every Blob Store
\* call succeeding.
CallSave(e) ==
    /\ DoSave(e, NoFault)
    /\ ghost' = IF e.pk = NoKey THEN ghost
                ELSE [GhostPut(ghost, e) EXCEPT !.resaved = @ \/ ghost.deleted]
    /\ UNCHANGED <<grow, proc, race, preferences>>

CallUpdate(e) ==
    /\ DoUpdate(e, NoFault)
    /\ ghost' = IF e.pk = NoKey THEN ghost
                ELSE [GhostPut(ghost, e) EXCEPT !.updated = TRUE]
    /\ UNCHANGED <<grow, proc, race, preferences>>

CallDeleteById(id) ==
    /\ DoDeleteById(id, NoFault)
    /\ ghost' = GhostRemove(ghost, id)
    /\ UNCHANGED <<grow, proc, race, preferences>>

CallDelete(e) ==
    /\ DoDelete(e, NoFault)
    /\ ghost' = IF e.pk = NoKey THEN ghost ELSE GhostRemove(ghost, e.pk)
    /\ UNCHANGED <<grow, proc, race, preferences>>

CallFindById(id) == DoFindById(id, NoFault) /\ UNCHANGED <<ghost, grow, proc, race, preferences>>

CallFindAll == DoFindAll(NoFault) /\ UNCHANGED <<ghost, grow, proc, race, preferences>>

CallExistsById(id) == DoExistsById(id, NoFault) /\ UNCHANGED <<ghost, grow, proc, race, preferences>>

Next ==
    \/ \E e \in Entities : CallSave(e)
    \/ \E e \in Entities : CallUpdate(e)
    \/ \E id \in Ids : CallDeleteById(id)
    \/ \E e \in Entities : CallDelete(e)
    \/ \E id \in Ids : CallFindById(id)
    \/ CallFindAll
    \/ \E id \in Ids : CallExistsById(id)

Spec == Init /\ [][Next]_vars

\* ------------------------------------------------------------- SpecGrow
\* Only Save and Update calls, from the empty store.
GrowSave(e) ==
    /\ DoSave(e, NoFault)
    /\ grow' = IF e.pk = NoKey THEN grow
               ELSE [grow EXCEPT !.saved = @ \cup {e.pk}]
    /\ UNCHANGED <<ghost, proc, race, preferences>>

GrowUpdate(e) ==
    /\ DoUpdate(e, NoFault)
    /\ grow' = IF e.pk = NoKey THEN grow
               ELSE [grow EXCEPT !.upd = @ \cup {e.pk},
                                 !.updFirst = IF e.pk \in grow.saved THEN @
                                              ELSE @ \cup {e.pk}]
    /\ UNCHANGED <<ghost, proc, race, preferences>>

NextGrow ==
    \/ \E e \in Entities : GrowSave(e)
    \/ \E e \in Entities : GrowUpdate(e)

SpecGrow == Init /\ [][NextGrow]_vars

\* ------------------------------------------------------------- SpecAny
\* One call on an arbitrary store: any index text (as an out-of-band write
\* may leave it), any entity blobs, index and blobs not required to agree.
Absent == <<"absent">>
Alphabet == {ToString(id)[1] : id \in Ids} \cup {LF, CR}
Texts == UNION {[1..k -> Alphabet] : k \in 0..MaxIdxLen}

MakeStore(idx, blobs) ==
    LET names == (IF idx = Absent THEN {} ELSE {GetIdsFilePath})
                 \cup {GetFilePath(id) : id \in {i \in Ids : blobs[i] # Absent}}
    IN [n \in names |-> IF n = GetIdsFilePath THEN idx
                        ELSE blobs[CHOOSE id \in Ids : GetFilePath(id) = n]]

InitAny ==
    /\ \E idx \in Texts \cup {Absent}, blobs \in [Ids -> Data \cup {Absent}] :
           store = MakeStore(idx, blobs)
    /\ last = NoCall
    /\ ghost = NoGhost
    /\ grow = NoGrow
    /\ proc = [p \in Procs |-> Idle]
    /\ race = NoRace
    /\ preferences = NoSession

First == last.op = "none"

AnySave(e) == First /\ DoSave(e, NoFault) /\ UNCHANGED <<ghost, grow, proc, race, preferences>>
AnyUpdate(e) == First /\ DoUpdate(e, NoFault) /\ UNCHANGED <<ghost, grow, proc, race, preferences>>
AnyDeleteById(id) == First /\ DoDeleteById(id, NoFault) /\ UNCHANGED <<ghost, grow, proc, race, preferences>>
AnyDelete(e) == First /\ DoDelete(e, NoFault) /\ UNCHANGED <<ghost, grow, proc, race, preferences>>
AnyFindById(id) == First /\ DoFindById(id, NoFault) /\ UNCHANGED <<ghost, grow, proc, race, preferences>>
AnyFindAll == First /\ DoFindAll(NoFault) /\ UNCHANGED <<ghost, grow, proc, race, preferences>>
AnyExistsById(id) == First /\ DoExistsById(id, NoFault) /\ UNCHANGED <<ghost, grow, proc, race, preferences>>

NextAny ==
    \/ \E e \in Entities : AnySave(e)
    \/ \E e \in Entities : AnyUpdate(e)
    \/ \E id \in Ids : AnyDeleteById(id)
    \/ \E e \in Entities : AnyDelete(e)
    \/ \E id \in Ids : AnyFindById(id)
    \/ AnyFindAll
    \/ \E id \in Ids : AnyExistsById(id)

SpecAny == InitAny /\ [][NextAny]_vars

\* ------------------------------------------------------------- SpecFail
\* Sequential calls from the empty store where the call on the entity blob
\* may fail (preferences.begin returns false) in any Save, Update or delete.
FailSave(e, f) == DoSave(e, f) /\ UNCHANGED <<ghost, grow, proc, race, preferences>>
FailUpdate(e, f) == DoUpdate(e, f) /\ UNCHANGED <<ghost, grow, proc, race, preferences>>
FailDeleteById(id, f) == DoDeleteById(id, f) /\ UNCHANGED <<ghost, grow, proc, race, preferences>>

NextFail ==
    \/ \E e \in Entities, f \in Faults : FailSave(e, f)
    \/ \E e \in Entities, f \in Faults : FailUpdate(e, f)
    \/ \E id \in Ids, f \in Faults : FailDeleteById(id, f)

SpecFail == Init /\ [][NextFail]_vars

\* ------------------------------------------------------------- SpecConc
\* Two callers on one table, each making one Save or DeleteById call.  Both
\* use the one file manager instance and its one Preferences member, with no
\* lock, so the steps are the calls on that member: begin(), getString() /
\* putString() / remove(), end(), and the callers' steps interleave.  The
\* start is any store sequential Saves leave: some IDs indexed once each,
\* each with its entity blob.
\* What begin() answers on a begun session, and what getString(),
\* putString() and remove() do on a session the other caller has ended or
\* begun anew, is the Preferences library's (and a race on the shared
\* member): every outcome is taken.
ConcEntities == {e \in Entities : e.pk # NoKey /\ e.data = <<"a">>}
NoDupSeqs == {s \in UNION {[1..k -> Ids] : k \in 0..MaxId} : NoDup(s)}
SavedStore(ids) ==
    MakeStore(IF ids = <<>> THEN Absent ELSE FormatIds(ids),
              [id \in Ids |-> IF InSeq(id, ids) THEN <<"a">> ELSE Absent])

InitConc ==
    /\ \E ids \in NoDupSeqs : store = SavedStore(ids)
    /\ last = NoCall
    /\ ghost = NoGhost
    /\ grow = NoGrow
    /\ proc = [p \in Procs |-> Idle]
    /\ race = NoRace
    /\ preferences = NoSession

At(p, pc) == proc[p].pc = pc
Goto(p, pc) == proc' = [proc EXCEPT ![p].pc = pc]
Quiet == UNCHANGED <<last, ghost, grow>>

\* The answers of preferences.begin(): success on an ended session, success
\* or failure on a begun one.
BeginResults == IF preferences.started THEN BOOLEAN ELSE {TRUE}
\* preferences.begin("filemanager", readOnly) answering ok.
Begin(readOnly, ok) ==
    /\ preferences' = IF ok THEN [started |-> TRUE, readOnly |-> readOnly]
                      ELSE preferences
    /\ race' = [race EXCEPT !.collided = @ \/ preferences.started]
\* putString() and remove() take effect on a begun, writable session; on
\* any other they take effect or not.
PutResults ==
    IF preferences.started /\ ~preferences.readOnly THEN {TRUE} ELSE BOOLEAN
\* getString(name, "") answers the content on a begun session, the content
\* or the default on an ended one.
GetResults(name) ==
    IF preferences.started THEN {GetString(store, name)}
    ELSE {GetString(store, name), <<>>}
\* preferences.end().
End == preferences' = NoSession
\* The index blob alone, holding the text a caller read.
AsIndex(contents) == Put(EmptyStore, GetIdsFilePath, contents)

\* Save, entered with an entity that has a key (lines 95-106).
ConcBeginSave(p, e) ==
    /\ At(p, "idle")
    /\ proc' = [proc EXCEPT ![p] = [Idle EXCEPT !.pc = "CreateBegin",
                                                !.id = e.pk, !.data = e.data]]
    /\ UNCHANGED <<store, race, preferences>> /\ Quiet

\* fileManager->Create (line 111): begin(), return when it failed
\* (ArduinoFileManager.h lines 24-27).
ConcCreateBegin(p) ==
    /\ At(p, "CreateBegin")
    /\ \E ok \in BeginResults :
           Begin(FALSE, ok) /\ Goto(p, IF ok THEN "CreatePut" ELSE "SaveReadBegin")
    /\ UNCHANGED store /\ Quiet

\* Create: putString() (ArduinoFileManager.h line 29).
ConcCreatePut(p) ==
    /\ At(p, "CreatePut")
    /\ \E written \in PutResults :
           store' = FmCreate(store, GetFilePath(proc[p].id), proc[p].data,
                             written).st
    /\ Goto(p, "CreateEnd")
    /\ UNCHANGED <<race, preferences>> /\ Quiet

\* Create: end() (ArduinoFileManager.h line 30).
ConcCreateEnd(p) ==
    /\ At(p, "CreateEnd")
    /\ End
    /\ Goto(p, "SaveReadBegin")
    /\ UNCHANGED <<store, race>> /\ Quiet

\* IdExistsInFile (line 114), Read: begin(); when it failed Read answers ""
\* after end() (ArduinoFileManager.h lines 41-45).
ConcSaveReadBegin(p) ==
    /\ At(p, "SaveReadBegin")
    /\ \E ok \in BeginResults :
           /\ Begin(TRUE, ok)
           /\ proc' = [proc EXCEPT
                          ![p].pc = IF ok THEN "SaveReadGet" ELSE "SaveReadEnd",
                          ![p].existing = <<>>]
    /\ UNCHANGED store /\ Quiet

\* Read: getString() (ArduinoFileManager.h line 47).
ConcSaveReadGet(p) ==
    /\ At(p, "SaveReadGet")
    /\ \E contents \in GetResults(GetIdsFilePath) :
           proc' = [proc EXCEPT ![p].pc = "SaveReadEnd", ![p].existing = contents]
    /\ UNCHANGED <<store, race, preferences>> /\ Quiet

\* Read: end() (ArduinoFileManager.h lines 43, 48); Save is complete when
\* the ID is among those read (lines 114-115).
ConcSaveReadEnd(p) ==
    /\ At(p, "SaveReadEnd")
    /\ End
    /\ IF IdExistsInFile(AsIndex(proc[p].existing), proc[p].id, TRUE)
       THEN /\ Goto(p, "done")
            /\ race' = [race EXCEPT !.saved = @ \cup {proc[p].id}]
       ELSE /\ Goto(p, "AppendBegin")
            /\ UNCHANGED race
    /\ UNCHANGED store /\ Quiet

\* fileManager->Append (line 119): begin(); when it failed Append returns
\* and Save is complete (ArduinoFileManager.h lines 82-85).
ConcAppendBegin(p) ==
    /\ At(p, "AppendBegin")
    /\ \E ok \in BeginResults :
           IF ok
           THEN /\ preferences' = [started |-> TRUE, readOnly |-> FALSE]
                /\ race' = [race EXCEPT !.collided = @ \/ preferences.started]
                /\ Goto(p, "AppendGet")
           ELSE /\ UNCHANGED preferences
                /\ race' = [race EXCEPT !.collided = TRUE,
                                        !.saved = @ \cup {proc[p].id}]
                /\ Goto(p, "done")
    /\ UNCHANGED store /\ Quiet

\* Append: getString() (ArduinoFileManager.h line 88).
ConcAppendGet(p) ==
    /\ At(p, "AppendGet")
    /\ \E contents \in GetResults(GetIdsFilePath) :
           proc' = [proc EXCEPT ![p].pc = "AppendPut", ![p].existing = contents]
    /\ UNCHANGED <<store, race, preferences>> /\ Quiet

\* Append: putString(existing + contents) (ArduinoFileManager.h lines 91-94).
ConcAppendPut(p) ==
    /\ At(p, "AppendPut")
    /\ \E written \in PutResults :
           /\ store' = IF written
                       THEN Put(store, GetIdsFilePath,
                                proc[p].existing \o SaveIdStr(proc[p].id))
                       ELSE store
           /\ race' = [race EXCEPT
                          !.stale = @ \/ (written /\ proc[p].existing
                                              # GetString(store, GetIdsFilePath))]
    /\ Goto(p, "AppendEnd")
    /\ UNCHANGED preferences /\ Quiet

\* Append: end() (ArduinoFileManager.h line 95); Save returns.
ConcAppendEnd(p) ==
    /\ At(p, "AppendEnd")
    /\ End
    /\ Goto(p, "done")
    /\ race' = [race EXCEPT !.saved = @ \cup {proc[p].id}]
    /\ UNCHANGED store /\ Quiet

\* DeleteById, entered (lines 222-224).
ConcBeginDeleteById(p, id) ==
    /\ At(p, "idle")
    /\ proc' = [proc EXCEPT ![p] = [Idle EXCEPT !.pc = "DeleteBegin", !.id = id]]
    /\ race' = [race EXCEPT !.deleting = @ \cup {id}]
    /\ UNCHANGED <<store, preferences>> /\ Quiet

\* fileManager->Delete (line 228): begin(), return when it failed
\* (ArduinoFileManager.h lines 65-68).
ConcDeleteBegin(p) ==
    /\ At(p, "DeleteBegin")
    /\ \E ok \in BeginResults :
           Begin(FALSE, ok) /\ Goto(p, IF ok THEN "DeleteRemove" ELSE "DelReadBegin")
    /\ UNCHANGED store /\ Quiet

\* Delete: remove() (ArduinoFileManager.h line 70).
ConcDeleteRemove(p) ==
    /\ At(p, "DeleteRemove")
    /\ \E removed \in PutResults :
           store' = FmDelete(store, GetFilePath(proc[p].id), removed).st
    /\ Goto(p, "DeleteEnd")
    /\ UNCHANGED <<race, preferences>> /\ Quiet

\* Delete: end() (ArduinoFileManager.h line 71).
ConcDeleteEnd(p) ==
    /\ At(p, "DeleteEnd")
    /\ End
    /\ Goto(p, "DelReadBegin")
    /\ UNCHANGED <<store, race>> /\ Quiet

\* ReadAllIds (line 231), Read: begin(); when it failed Read answers ""
\* after end() (ArduinoFileManager.h lines 41-45).
ConcDelReadBegin(p) ==
    /\ At(p, "DelReadBegin")
    /\ \E ok \in BeginResults :
           /\ Begin(TRUE, ok)
           /\ proc' = [proc EXCEPT
                          ![p].pc = IF ok THEN "DelReadGet" ELSE "DelReadEnd",
                          ![p].existing = <<>>]
    /\ UNCHANGED store /\ Quiet

\* Read: getString() (ArduinoFileManager.h line 47).
ConcDelReadGet(p) ==
    /\ At(p, "DelReadGet")
    /\ \E contents \in GetResults(GetIdsFilePath) :
           proc' = [proc EXCEPT ![p].pc = "DelReadEnd", ![p].existing = contents]
    /\ UNCHANGED <<store, race, preferences>> /\ Quiet

\* Read: end() (ArduinoFileManager.h lines 43, 48); the IDs are parsed from
\* the text read (lines 39-63).
ConcDelReadEnd(p) ==
    /\ At(p, "DelReadEnd")
    /\ End
    /\ proc' = [proc EXCEPT ![p].pc = "WriteBegin",
                            ![p].ids = ReadAllIds(AsIndex(proc[p].existing), TRUE)]
    /\ UNCHANGED <<store, race>> /\ Quiet

\* WriteAllIds (lines 232-238), Create: begin(), return when it failed.
ConcWriteBegin(p) ==
    /\ At(p, "WriteBegin")
    /\ \E ok \in BeginResults :
           Begin(FALSE, ok) /\ Goto(p, IF ok THEN "WritePut" ELSE "done")
    /\ UNCHANGED store /\ Quiet

\* WriteAllIds, Create: putString() of the filtered IDs.
ConcWritePut(p) ==
    /\ At(p, "WritePut")
    /\ \E written \in PutResults :
           /\ store' = WriteAllIds(store, FilterIds(proc[p].ids, proc[p].id),
                                   written)
           /\ race' = [race EXCEPT
                          !.stale = @ \/ (written /\ proc[p].ids
                                                     # ReadAllIds(store, TRUE))]
    /\ Goto(p, "WriteEnd")
    /\ UNCHANGED preferences /\ Quiet

\* WriteAllIds, Create: end(); DeleteById returns.
ConcWriteEnd(p) ==
    /\ At(p, "WriteEnd")
    /\ End
    /\ Goto(p, "done")
    /\ UNCHANGED <<store, race>> /\ Quiet

NextConc ==
    \/ \E p \in Procs, e \in ConcEntities : ConcBeginSave(p, e)
    \/ \E p \in Procs : ConcCreateBegin(p)
    \/ \E p \in Procs : ConcCreatePut(p)
    \/ \E p \in Procs : ConcCreateEnd(p)
    \/ \E p \in Procs : ConcSaveReadBegin(p)
    \/ \E p \in Procs : ConcSaveReadGet(p)
    \/ \E p \in Procs : ConcSaveReadEnd(p)
    \/ \E p \in Procs : ConcAppendBegin(p)
    \/ \E p \in Procs : ConcAppendGet(p)
    \/ \E p \in Procs : ConcAppendPut(p)
    \/ \E p \in Procs : ConcAppendEnd(p)
    \/ \E p \in Procs, id \in Ids : ConcBeginDeleteById(p, id)
    \/ \E p \in Procs : ConcDeleteBegin(p)
    \/ \E p \in Procs : ConcDeleteRemove(p)
    \/ \E p \in Procs : ConcDeleteEnd(p)
    \/ \E p \in Procs : ConcDelReadBegin(p)
    \/ \E p \in Procs : ConcDelReadGet(p)
    \/ \E p \in Procs : ConcDelReadEnd(p)
    \/ \E p \in Procs : ConcWriteBegin(p)
    \/ \E p \in Procs : ConcWritePut(p)
    \/ \E p \in Procs : ConcWriteEnd(p)

SpecConc == InitConc /\ [][NextConc]_vars

\* ------------------------------------------------------------- views
\* What the state holds, as the read operations report it.
IndexText(st) == GetString(st, GetIdsFilePath)
IndexIds(st) == ParseIds(IndexText(st))
BlobText(st, id) == GetString(st, GetFilePath(id))
BlobIds(st) == {id \in Ids : BlobText(st, id) # <<>>}
Keyed(op) == last.op = op /\ last.arg.pk # NoKey

Unterminated(text) ==
    text # <<>> /\ text[Len(text)] # LF /\ text[Len(text)] # CR
IsWrite(c) == c.call \in {"Create", "Update", "Append", "Delete"}

\* The lines of a text: the pieces its LF characters end, and a non-empty
\* rest after the last LF.
RECURSIVE SplitLines(_, _, _, _)
SplitLines(text, i, cur, lines) ==
    IF i > Len(text)
    THEN IF cur # <<>> THEN Append(lines, cur) ELSE lines
    ELSE IF text[i] = LF
         THEN SplitLines(text, i + 1, <<>>, Append(lines, cur))
         ELSE SplitLines(text, i + 1, Append(cur, text[i]), lines)
IndexLines(st) == SplitLines(IndexText(st), 1, <<>>, <<>>)

\* ------------------------------------------------------------- C1
\* C1 as claimed: after Save(E) of any entity E with a key k, FindById(k)
\* returns a present result holding E's serialized content.
RoundTripAnyEntity ==
    Keyed("Save")
    => FindById(store, last.arg.pk, NoFault).ret
       = Some(Deserialize(Serialize(last.arg)))

\* C1 amended: after Save(E) of an entity E with a key k whose serialized
\* content is non-empty, FindById(k) returns a present result holding E's
\* serialized content: not "not found", not an earlier version's content,
\* not another entity's.
RoundTrip ==
    (Keyed("Save") /\ Serialize(last.arg) # <<>>)
    => FindById(store, last.arg.pk, NoFault).ret
       = Some(Deserialize(Serialize(last.arg)))

\* C1 witness: a Save that overwrote a different earlier version while another entity
\* with different content is stored.
RoundTripWitness ==
    /\ Keyed("Save")
    /\ Serialize(last.arg) # <<>>
    /\ BlobText(last.pre, last.arg.pk) \notin {<<>>, Serialize(last.arg)}
    /\ \E other \in Ids \ {last.arg.pk} :
           BlobText(store, other) \notin {<<>>, Serialize(last.arg)}

\* ------------------------------------------------------------- C2
SavesThenDeletes == ~ghost.updated /\ ~ghost.resaved
GhostEntities(ids) == [i \in 1..Len(ids) |-> Deserialize(ghost.cur[ids[i]])]
NonEmptySaved == SelectSeq(ghost.order, LAMBDA id : ghost.cur[id] # <<>>)

\* C2 as claimed: from the empty table, after Saves and then deletes,
\* FindAll returns exactly the saved and not deleted entities in the order
\* they were first saved, and ExistsById is true exactly for their IDs.
IndexConsistencyAnyEntity ==
    SavesThenDeletes
    => /\ FindAll(store, NoFault).ret = GhostEntities(ghost.order)
       /\ \A id \in Ids :
              ExistsById(store, id, NoFault).ret = InSeq(id, ghost.order)

\* C2 amended: from the empty table, after Saves and then deletes, FindAll
\* returns exactly the saved and not deleted entities whose serialized
\* content is non-empty, in the order they were first saved, and ExistsById
\* is true exactly for their IDs (false for a deleted ID).
IndexConsistency ==
    SavesThenDeletes
    => /\ FindAll(store, NoFault).ret = GhostEntities(NonEmptySaved)
       /\ \A id \in Ids :
              ExistsById(store, id, NoFault).ret = InSeq(id, NonEmptySaved)

\* C2 witness: two entities were saved and DeleteById removed the first saved one.
IndexConsistencyWitness ==
    /\ SavesThenDeletes
    /\ last.op = "DeleteById"
    /\ Len(FindAll(last.pre, NoFault).ret) = 2
    /\ last.arg = IndexIds(last.pre)[1]
    /\ Len(FindAll(store, NoFault).ret) = 1
    /\ ~ExistsById(store, last.arg, NoFault).ret

\* ------------------------------------------------------------- C3
EmptySaved == {id \in DOMAIN ghost.cur : ghost.cur[id] = <<>>}

\* C3 as claimed: between calls, the IDs parsed from the index are exactly
\* the IDs whose entity blob has non-empty content.
IndexBlobAgreementAnyEntity == SeqSet(IndexIds(store)) = BlobIds(store)

\* C3 amended: between calls, every ID whose entity blob has non-empty
\* content is in the index, and the indexed IDs without such a blob are
\* exactly the IDs whose last written serialized content is empty; so the
\* two sets are equal when no entity serializes to the empty text.
IndexBlobAgreement ==
    /\ BlobIds(store) \subseteq SeqSet(IndexIds(store))
    /\ SeqSet(IndexIds(store)) \ BlobIds(store) = EmptySaved

\* C3 witness: after Saves, Updates and deletes, a Delete(entity) left another entity.
IndexBlobAgreementWitness ==
    /\ ghost.updated /\ ghost.resaved
    /\ Keyed("Delete")
    /\ last.pre # store
    /\ BlobIds(store) # {}
    /\ EmptySaved = {}

\* ------------------------------------------------------------- C4
\* C4: Save, Update and Delete of an entity without a key issue no Blob
\* Store write, leave the store as it was, and Save and Update return the
\* entity they were given.
NoKeyNoOp ==
    (last.op \in {"Save", "Update", "Delete"} /\ last.arg.pk = NoKey)
    => /\ \A i \in 1..Len(last.log) : ~IsWrite(last.log[i])
       /\ store = last.pre
       /\ last.op \in {"Save", "Update"} => last.ret = last.arg

\* C4 witness: a Save without a key, with content to write, on a store holding entities.
NoKeyNoOpWitness ==
    /\ last.op = "Save" /\ last.arg.pk = NoKey
    /\ Serialize(last.arg) # <<>>
    /\ BlobIds(store) # {}

\* ------------------------------------------------------------- C5
\* C5: from the empty index, once Save was called for N distinct IDs, with
\* Update calls on those IDs before or after, the index has exactly N lines
\* and no two are equal.
AppendGrowth ==
    grow.upd \subseteq grow.saved
    => /\ Len(IndexLines(store)) = Cardinality(grow.saved)
       /\ NoDup(IndexLines(store))

\* C5 witness: every ID saved and updated, one updated before its Save, one after.
AppendGrowthWitness ==
    /\ grow.saved = Ids /\ grow.upd = Ids
    /\ grow.updFirst # {} /\ grow.updFirst # Ids

\* ------------------------------------------------------------- C6
\* C6: after any sequence of calls no ID occurs twice in the parsed index,
\* and FindAll reads no entity blob twice.
DeDuplicated ==
    /\ NoDup(IndexIds(store))
    /\ NoDup(FindAll(store, NoFault).log)

\* C6 witness: a Save of an ID that is already indexed, after some delete and re-save.
DeDuplicatedWitness ==
    /\ ghost.resaved
    /\ Keyed("Save")
    /\ InSeq(last.arg.pk, IndexIds(last.pre))
    /\ Len(IndexIds(store)) = MaxId

\* ------------------------------------------------------------- C7
UpdateOfUnindexed ==
    /\ Keyed("Update")
    /\ ~InSeq(last.arg.pk, IndexIds(last.pre))
    /\ Unterminated(IndexText(last.pre))

\* C7: Update of an ID that is not indexed, on an index text that is
\* non-empty and ends in no terminator, leaves an index that parses to the
\* IDs it held before followed by the new ID.
NewlineSafety ==
    UpdateOfUnindexed
    => IndexIds(store) = Append(IndexIds(last.pre), last.arg.pk)

\* C7 witness: such an Update, where joining the new ID's digits onto the last line
\* would have parsed to another ID.
NewlineSafetyWitness ==
    /\ UpdateOfUnindexed
    /\ ParseIds(IndexText(last.pre) \o SaveIdStr(last.arg.pk))
           # Append(IndexIds(last.pre), last.arg.pk)

\* ------------------------------------------------------------- C8
\* The IDs a Save completed for and no DeleteById was ever begun for.
SavedAndKept == race.saved \ race.deleting
LostIds == {id \in SavedAndKept : ~InSeq(id, IndexIds(store))}

\* C8: when the Blob Store calls of two calls interleave, an ID whose Save
\* completed (and that no call deletes) can be missing from the index; that
\* happens only after a caller wrote the index back from a stale read, or
\* after a caller began a Preferences session inside the other caller's;
\* without such a collision the entity blob of the ID is still
\* there, so FindAll does not return an entity that FindById finds.
LostUpdateOnlyByRace ==
    \A id \in LostIds :
        /\ race.stale \/ race.collided
        /\ ~race.collided
           => /\ FindById(store, id, NoFault).ret # NullOpt
              /\ Len(FindAll(store, NoFault).ret) < Cardinality(BlobIds(store))

\* C8 witness: both calls complete with every Blob Store call carried out,
\* a DeleteById and a Save of another, new ID; the saved ID is not in the
\* index and its entity blob exists.
LostUpdateWitness ==
    /\ \A p \in Procs : At(p, "done")
    /\ ~race.collided
    /\ race.stale
    /\ \E id \in LostIds :
           /\ GetFilePath(id) \in DOMAIN store
           /\ race.deleting # {}
           /\ \A i \in 1..Len(FindAll(store, NoFault).log) :
                  FindAll(store, NoFault).log[i].name # GetFilePath(id)

\* ------------------------------------------------------------- C9
EntityWriteFailed ==
    /\ last.op \in {"Save", "Update"}
    /\ last.arg.pk # NoKey
    /\ 1 \in last.fault
AsIfSucceeded ==
    IF last.op = "Save" THEN Save(last.pre, last.arg, NoFault)
    ELSE Update(last.pre, last.arg, NoFault)
\* Nothing written to the entity blob, the index as the successful call
\* leaves it, the ID indexed, the entity returned.
FailureIgnored ==
    /\ BlobText(store, last.arg.pk) = BlobText(last.pre, last.arg.pk)
    /\ (GetFilePath(last.arg.pk) \in DOMAIN store)
           = (GetFilePath(last.arg.pk) \in DOMAIN last.pre)
    /\ IndexText(store) = IndexText(AsIfSucceeded.st)
    /\ InSeq(last.arg.pk, IndexIds(store))
    /\ last.ret = last.arg

\* C9 as claimed: when the entity write of Save or Update fails, the index
\* step runs as if it had succeeded, the entity is returned, and the ID is
\* indexed with no entity blob.
FailureIgnoredNoBlob ==
    EntityWriteFailed
    => FailureIgnored /\ BlobText(store, last.arg.pk) = <<>>

\* C9 amended: when the entity write of Save or Update fails, the index
\* step runs as if it had succeeded and the entity is returned; the ID is
\* indexed, with no entity blob when it had none before the call and with
\* its old blob otherwise.
FailureIgnoredOldBlob ==
    EntityWriteFailed
    => /\ FailureIgnored
       /\ BlobText(last.pre, last.arg.pk) = <<>>
              => BlobText(store, last.arg.pk) = <<>>

\* C9 witness: a failed write of content for a new ID: indexed by the call, no blob.
FailureIgnoredWitness ==
    /\ EntityWriteFailed
    /\ Serialize(last.arg) # <<>>
    /\ ~InSeq(last.arg.pk, IndexIds(last.pre))
    /\ InSeq(last.arg.pk, IndexIds(store))
    /\ GetFilePath(last.arg.pk) \notin DOMAIN store

\* ------------------------------------------------------------- C10
\* The index texts that list the ID and that do not.
IndexVariants(id) == {<<>>, SaveIdStr(id), <<LF>>}

\* C10: from every store state ExistsById(id) answers true exactly when the
\* entity blob of id has non-empty content, exactly when FindById(id) is
\* present, whatever the index holds.
ExistsOnlyByBlob ==
    last.op = "ExistsById"
    => LET id == last.arg
           st == last.pre
       IN /\ last.ret = (BlobText(st, id) # <<>>)
          /\ last.ret = (FindById(st, id, NoFault).ret # NullOpt)
          /\ \A text \in IndexVariants(id) :
                 ExistsById(Put(st, GetIdsFilePath, text), id, NoFault).ret
                 = last.ret

\* C10 witness: ExistsById answered false for an indexed ID, while another ID has a blob
\* and is not indexed.
ExistsOnlyByBlobWitness ==
    /\ last.op = "ExistsById"
    /\ ~last.ret
    /\ InSeq(last.arg, IndexIds(store))
    /\ \E other \in Ids :
           BlobText(store, other) # <<>> /\ ~InSeq(other, IndexIds(store))

\* ------------------------------------------------------------- C11
\* The index entries whose entity blob has content, in index order, and
\* the entities those blobs hold.
IndexedWithBlob(st) ==
    SelectSeq(IndexIds(st), LAMBDA id : BlobText(st, id) # <<>>)
EntitiesOf(st, ids) ==
    [i \in 1..Len(ids) |-> Deserialize(BlobText(st, ids[i]))]

\* A sequence of IDs with every repeat of an ID after its first entry left out.
OncePerId(ids) ==
    LET F[i \in 0..Len(ids)] ==
            IF i = 0 THEN <<>>
            ELSE IF InSeq(ids[i], F[i - 1]) THEN F[i - 1]
                 ELSE Append(F[i - 1], ids[i])
    IN F[Len(ids)]
\* FindAll reads, after the index, only entity blobs of indexed IDs.
ReadsIndexedOnly ==
    \A i \in 2..Len(last.log) :
        \E j \in 1..Len(IndexIds(last.pre)) :
            last.log[i].name = GetFilePath(IndexIds(last.pre)[j])

\* C11 as claimed: from every store state FindAll returns, in index order,
\* exactly one entity per indexed ID whose entity blob has content; an
\* indexed ID whose blob is missing or empty is skipped, and no blob of an
\* ID that is not indexed is read or returned.
FindAllOnePerId ==
    last.op = "FindAll"
    => /\ last.ret = EntitiesOf(last.pre, OncePerId(IndexedWithBlob(last.pre)))
       /\ ReadsIndexedOnly

\* C11: from every store state FindAll returns, in index order, one entity
\* for each index entry whose entity blob has content, so an ID the index
\* lists more than once is returned once per entry, and exactly one entity
\* per such ID when the index lists no ID twice; an indexed ID whose blob is
\* missing or empty is skipped, and no blob of an ID that is not indexed is
\* read or returned.
FindAllUnderDrift ==
    last.op = "FindAll"
    => /\ last.ret = EntitiesOf(last.pre, IndexedWithBlob(last.pre))
       /\ NoDup(IndexIds(last.pre))
          => /\ last.ret
                = EntitiesOf(last.pre, OncePerId(IndexedWithBlob(last.pre)))
             /\ Len(last.ret)
                = Cardinality({id \in SeqSet(IndexIds(last.pre)) :
                                  BlobText(last.pre, id) # <<>>})
       /\ ReadsIndexedOnly

\* C11 witness: FindAll on an index of two IDs, the first without blob
\* content, the second with: one entity returned.
FindAllUnderDriftWitness ==
    /\ last.op = "FindAll"
    /\ Len(IndexIds(store)) = 2
    /\ BlobText(store, IndexIds(store)[1]) = <<>>
    /\ BlobText(store, IndexIds(store)[2]) # <<>>
    /\ Len(last.ret) = 1

\* ------------------------------------------------------------- C12
\* C12: in the state an Update(E) of a keyed entity leaves, from any store,
\* a second Update(E) changes nothing: the store (entity blob and index) and
\* the result of FindById(k) are the same after it, and it returns E again.
UpdateIdempotent ==
    Keyed("Update")
    => LET again == Update(store, last.arg, NoFault)
       IN /\ again.st = store
          /\ FindById(again.st, last.arg.pk, NoFault).ret
             = FindById(store, last.arg.pk, NoFault).ret
          /\ again.ret = last.ret

\* C12 witness: an Update that replaced other blob content and added its ID
\* to an index that did not list it.
UpdateIdempotentWitness ==
    /\ Keyed("Update")
    /\ Serialize(last.arg) # <<>>
    /\ BlobText(last.pre, last.arg.pk) \notin {<<>>, Serialize(last.arg)}
    /\ ~InSeq(last.arg.pk, IndexIds(last.pre))
    /\ IndexIds(last.pre) # <<>>
    /\ store # last.pre

\* ------------------------------------------------------------- C13
BlobNames == {GetIdsFilePath} \cup {GetFilePath(id) : id \in Ids}
BlobContents == Data \cup {SaveIdStr(id) : id \in Ids}

\* The contract for one blob name and contents on the store st.
ContractAt(st, name, c) ==
    LET was == FmRead(st, name, TRUE)
        app == FmAppend(st, name, c, TRUE)
    IN /\ \A ok \in BOOLEAN :
              FmUpdate(st, name, c, ok) = FmCreate(st, name, c, ok)
       /\ FmUpdate(st, name, c, TRUE).st = Put(st, name, c)
       /\ FmRead(app.st, name, TRUE) = was \o c
       /\ app = FmCreate(st, name, was \o c, TRUE)
       /\ name \in DOMAIN app.st
       /\ \A other \in (DOMAIN st) \ {name} : app.st[other] = st[other]
       /\ name \notin DOMAIN st => was = <<>>

\* C13: on every store a call can start from, for every blob name and
\* contents, the adapter's Update has the effect and result of Create; after
\* Append a Read gives the previous Read followed by the contents, the store
\* is the one Create(name, Read(name) + contents) leaves (the blob exists
\* afterwards even if it was absent) with the same result; Read of an absent
\* name is empty. The same holds for the Update and Append calls a repository
\* Update has made.
BlobStoreContract ==
    /\ First => \A name \in BlobNames, c \in BlobContents :
                    ContractAt(store, name, c)
    /\ Keyed("Update")
       => LET k == last.arg.pk
              was == IndexText(last.pre)
          IN /\ ContractAt(last.pre, GetFilePath(k), Serialize(last.arg))
             /\ BlobText(store, k) = Serialize(last.arg)
             /\ GetFilePath(k) \in DOMAIN store
             /\ Call("Append", GetIdsFilePath) \in SeqSet(last.log)
                => /\ IndexText(store) = was \o UpdateIdStr(was, k)
                   /\ GetIdsFilePath \in DOMAIN store

\* C13 witness: an Update that overwrote other blob content through the
\* adapter's Update and whose index Append created the absent index blob.
BlobStoreContractWitness ==
    /\ Keyed("Update")
    /\ GetIdsFilePath \notin DOMAIN last.pre
    /\ IndexText(store) = SaveIdStr(last.arg.pk)
    /\ BlobText(last.pre, last.arg.pk) \notin {<<>>, Serialize(last.arg)}
    /\ BlobText(store, last.arg.pk) = Serialize(last.arg)

\* ------------------------------------------------------------- C14
CountCalls(log, kind, name) ==
    Cardinality({i \in 1..Len(log) : log[i] = Call(kind, name)})
\* The calls of Save that write: at most one Create of the entity blob of k
\* and at most one Append to the index, and no other write.
SaveWritesBounded(k) ==
    /\ CountCalls(last.log, "Create", GetFilePath(k)) <= 1
    /\ CountCalls(last.log, "Append", GetIdsFilePath) <= 1
    /\ \A i \in 1..Len(last.log) :
           IsWrite(last.log[i])
           => last.log[i] \in {Call("Create", GetFilePath(k)),
                               Call("Append", GetIdsFilePath)}
\* Save of an already indexed key: the index is not written.
SaveIndexedUntouched(k) ==
    InSeq(k, IndexIds(last.pre))
    => /\ IndexIds(store) = IndexIds(last.pre)
       /\ IndexText(store) = IndexText(last.pre)
       /\ (GetIdsFilePath \in DOMAIN store) = (GetIdsFilePath \in DOMAIN last.pre)
       /\ CountCalls(last.log, "Append", GetIdsFilePath) = 0

\* C14 as claimed: whatever the prior index content, after Save of key k the
\* parsed index is the prior parsed sequence with k added at the end when k
\* was not in it, and is untouched when it was; at most one entity-blob write
\* and one index append.
SaveIndexEffectAnyIndex ==
    Keyed("Save")
    => LET k == last.arg.pk
       IN /\ SaveIndexedUntouched(k)
          /\ ~InSeq(k, IndexIds(last.pre))
             => IndexIds(store) = Append(IndexIds(last.pre), k)
          /\ SaveWritesBounded(k)

\* C14: the same, where the prior index content is empty or ends with a line
\* terminator; on any prior content the index text after Save of an
\* unindexed key is the prior text followed by "<k>\n".
SaveIndexEffect ==
    Keyed("Save")
    => LET k == last.arg.pk
       IN /\ SaveIndexedUntouched(k)
          /\ ~InSeq(k, IndexIds(last.pre))
             => /\ IndexText(store) = IndexText(last.pre) \o SaveIdStr(k)
                /\ CountCalls(last.log, "Append", GetIdsFilePath) = 1
                /\ ~Unterminated(IndexText(last.pre))
                   => IndexIds(store) = Append(IndexIds(last.pre), k)
          /\ SaveWritesBounded(k)

\* C14 witness: Save of an unindexed key on a terminated index listing
\* another ID put the key at the end.
SaveIndexEffectWitness ==
    /\ Keyed("Save")
    /\ IndexIds(last.pre) # <<>>
    /\ ~Unterminated(IndexText(last.pre))
    /\ ~InSeq(last.arg.pk, IndexIds(last.pre))
    /\ IndexIds(store) = Append(IndexIds(last.pre), last.arg.pk)

\* ------------------------------------------------------------- C15
\* C15: after DeleteById(id), from any store, the entity blob of id is gone
\* and the index text is the previously parsed ID sequence without any
\* occurrence of id, the others in their order, one decimal ID per line, every
\* line (the last too) ended by '\n'; when id was the only indexed ID the
\* index parses to the empty sequence.
DeleteRewritesIndex ==
    last.op = "DeleteById"
    => LET id == last.arg
           kept == FilterIds(IndexIds(last.pre), id)
           text == IndexText(store)
       IN /\ GetFilePath(id) \notin DOMAIN store
          /\ ~InSeq(id, kept)
          /\ \A i \in 1..Len(kept) : InSeq(kept[i], IndexIds(last.pre))
          /\ text = FormatIds(kept)
          /\ IndexLines(store) = [i \in 1..Len(kept) |-> ToString(kept[i])]
          /\ text = <<>> \/ text[Len(text)] = LF
          /\ \A i \in 1..Len(text) : text[i] # CR
          /\ IndexIds(store) = kept
          /\ SeqSet(IndexIds(last.pre)) \subseteq {id} => IndexIds(store) = <<>>

\* C15 witness: DeleteById of an indexed ID with an entity blob, on an
\* index whose last line had no terminator, left the other ID on a
\* terminated line.
DeleteRewritesIndexWitness ==
    /\ last.op = "DeleteById"
    /\ InSeq(last.arg, IndexIds(last.pre))
    /\ GetFilePath(last.arg) \in DOMAIN last.pre
    /\ Unterminated(IndexText(last.pre))
    /\ Len(IndexIds(store)) = 1
    /\ IndexText(store) = ToString(IndexIds(store)[1]) \o <<LF>>

\* ------------------------------------------------------------- C16
IsTerminator(c) == c = LF \/ c = CR
\* The positions where a non-empty token starts, and where that token ends.
TokenStarts(text) ==
    {a \in 1..Len(text) :
        ~IsTerminator(text[a]) /\ (a = 1 \/ IsTerminator(text[a - 1]))}
TokenEnd(text, a) ==
    CHOOSE b \in a..Len(text) :
        /\ \A j \in a..b : ~IsTerminator(text[j])
        /\ b = Len(text) \/ IsTerminator(text[b + 1])
NthStart(text, i) ==
    CHOOSE a \in TokenStarts(text) :
        Cardinality({x \in TokenStarts(text) : x < a}) = i - 1
\* The non-empty tokens between terminators, in order of appearance.
TokensOf(text) ==
    [i \in 1..Cardinality(TokenStarts(text)) |->
        SubSeq(text, NthStart(text, i), TokenEnd(text, NthStart(text, i)))]
IdSeqs == UNION {[1..k -> Ids] : k \in 0..MaxId}

\* C16: on every index text ReadAllIds returns one ID per non-empty token
\* between '\n' / '\r' characters, in order of appearance, the ID being the
\* number the token's decimal digits write (a last token without terminator
\* included, empty tokens giving nothing); an empty or missing index blob
\* gives the empty sequence; and reading back what WriteAllIds(ids) wrote
\* returns ids. Stated for every index text a call can start from (in the
\* stores without entity blobs, which the parsing does not look at), for the
\* blobs FindAll goes on to read, and for the index DeleteById wrote.
ParsingRule ==
    /\ (First /\ DOMAIN store \subseteq {GetIdsFilePath})
       => LET text == IndexText(store)
              ids == ReadAllIds(store, TRUE)
              tokens == TokensOf(text)
          IN /\ Len(ids) = Len(tokens)
             /\ \A i \in 1..Len(ids) :
                    ids[i] = Stoll(tokens[i]) /\ ToString(ids[i]) = tokens[i]
             /\ (GetIdsFilePath \notin DOMAIN store \/ text = <<>>) => ids = <<>>
             /\ (\A i \in 1..Len(text) : IsTerminator(text[i])) => ids = <<>>
             /\ \A written \in IdSeqs :
                    ReadAllIds(WriteAllIds(store, written, TRUE), TRUE) = written
    /\ last.op = "FindAll"
       => LET tokens == TokensOf(IndexText(last.pre))
          IN /\ Len(last.log) = 1 + Len(tokens)
             /\ \A i \in 1..Len(tokens) :
                    last.log[i + 1] = Call("Read", GetFilePath(Stoll(tokens[i])))
    /\ last.op = "DeleteById"
       => ReadAllIds(store, TRUE) = FilterIds(IndexIds(last.pre), last.arg)

\* C16 witness: FindAll read an index text that starts with "\r\n" and ends
\* with a token without terminator, and looked up that one ID.
ParsingRuleWitness ==
    /\ last.op = "FindAll"
    /\ Len(IndexText(store)) >= 3
    /\ IndexText(store)[1] = CR
    /\ IndexText(store)[2] = LF
    /\ Unterminated(IndexText(store))
    /\ Len(IndexIds(store)) = 1
    /\ Len(last.log) = 2
    /\ last.log[2] = Call("Read", GetFilePath(IndexIds(store)[1]))

\* ------------------------------------------------------------- C17
KeyedEntities == {e \in Entities : e.pk # NoKey}

\* C17: in every store state the repository operations reach from the empty
\* store, Update(E) and Save(E) of any keyed entity leave the same store
\* (same entity blob, same index text) and return the same value; a call of
\* either one leaves what the other would have left; and Update of an entity
\* with no blob and no index entry creates the blob and puts its ID at the
\* end of the index.
UpdateLikeSave ==
    /\ \A e \in KeyedEntities :
           LET u == Update(store, e, NoFault)
               s == Save(store, e, NoFault)
           IN /\ u.st = s.st
              /\ u.ret = s.ret
              /\ BlobText(u.st, e.pk) = BlobText(s.st, e.pk)
              /\ IndexText(u.st) = IndexText(s.st)
    /\ Keyed("Update")
       => /\ store = Save(last.pre, last.arg, NoFault).st
          /\ last.ret = Save(last.pre, last.arg, NoFault).ret
          /\ GetFilePath(last.arg.pk) \in DOMAIN store
          /\ BlobText(store, last.arg.pk) = Serialize(last.arg)
          /\ ~InSeq(last.arg.pk, IndexIds(last.pre))
             => IndexIds(store) = Append(IndexIds(last.pre), last.arg.pk)
    /\ Keyed("Save")
       => /\ store = Update(last.pre, last.arg, NoFault).st
          /\ last.ret = Update(last.pre, last.arg, NoFault).ret

\* C17 witness: Update of an entity that was never saved, while another ID
\* is indexed, created its blob and put its ID at the end of the index.
UpdateLikeSaveWitness ==
    /\ Keyed("Update")
    /\ GetFilePath(last.arg.pk) \notin DOMAIN last.pre
    /\ ~InSeq(last.arg.pk, IndexIds(last.pre))
    /\ IndexIds(last.pre) # <<>>
    /\ GetFilePath(last.arg.pk) \in DOMAIN store
    /\ IndexIds(store) = Append(IndexIds(last.pre), last.arg.pk)

\* ------------------------------------------------------------- C18
TerminatorEnded(text) == text = <<>> \/ text[Len(text)] = LF

\* C18: starting from no index blob, after any sequence of Save, Update,
\* DeleteById and Delete calls the index text is empty or ends with '\n';
\* so a Save that appends puts its ID on a line of its own, after the IDs
\* listed before, and an Update that appends adds exactly "<id>\n", never
\* the extra leading terminator.
IndexTerminatorEnded ==
    /\ TerminatorEnded(IndexText(store))
    /\ TerminatorEnded(IndexText(last.pre))
    /\ (Keyed("Save") /\ IndexText(store) # IndexText(last.pre))
       => /\ IndexIds(store) = Append(IndexIds(last.pre), last.arg.pk)
          /\ IndexLines(store)
             = Append(IndexLines(last.pre), ToString(last.arg.pk))
    /\ (Keyed("Update") /\ IndexText(store) # IndexText(last.pre))
       => /\ IndexText(store)
             = IndexText(last.pre) \o ToString(last.arg.pk) \o <<LF>>
          /\ UpdateIdStr(IndexText(last.pre), last.arg.pk)
             # <<LF>> \o ToString(last.arg.pk) \o <<LF>>

\* C18 witness: after calls that included an Update and a delete, a Save
\* appended its ID to a non-empty index on a line of its own.
IndexTerminatorEndedWitness ==
    /\ Keyed("Save")
    /\ ghost.updated
    /\ ghost.deleted
    /\ IndexText(last.pre) # <<>>
    /\ IndexIds(last.pre) # <<>>
    /\ IndexText(store) = IndexText(last.pre) \o SaveIdStr(last.arg.pk)
    /\ IndexIds(store) = Append(IndexIds(last.pre), last.arg.pk)

\* ------------------------------------------------------------- C19
\* The last call was a write operation on an entity with an ID, and that ID.
WroteOneId ==
    \/ last.op = "DeleteById"
    \/ last.op \in {"Save", "Update", "Delete"} /\ last.arg.pk # NoKey
TouchedId == IF last.op = "DeleteById" THEN last.arg ELSE last.arg.pk
\* The entity blobs of the IDs other than a, and what the read operations
\* return for them, are as before the call.
OtherBlobsUnchanged(a) ==
    \A b \in Ids \ {a} :
        /\ (GetFilePath(b) \in DOMAIN store) = (GetFilePath(b) \in DOMAIN last.pre)
        /\ BlobText(store, b) = BlobText(last.pre, b)
        /\ FindById(store, b, NoFault).ret = FindById(last.pre, b, NoFault).ret
        /\ ExistsById(store, b, NoFault).ret = ExistsById(last.pre, b, NoFault).ret
\* The parsed index without a is as before the call: every other ID keeps
\* its membership and its order relative to the others.
OtherIndexEntriesUnchanged(a) ==
    FilterIds(IndexIds(store), a) = FilterIds(IndexIds(last.pre), a)

\* C19 as claimed: from any store state, Save, Update, DeleteById or Delete
\* on ID a leaves the blob of every other ID b, and b's membership and
\* relative order in the parsed index, unchanged.
FrameAnyStore ==
    WroteOneId
    => OtherBlobsUnchanged(TouchedId) /\ OtherIndexEntriesUnchanged(TouchedId)

\* C19: from any store state the four operations on ID a leave the blob of
\* every other ID unchanged; Update, DeleteById and Delete leave the other
\* IDs' membership and relative order in the parsed index unchanged, and
\* Save does so when the index text is empty or ends with a line terminator
\* or already lists a.
FrameOtherIds ==
    WroteOneId
    => /\ OtherBlobsUnchanged(TouchedId)
       /\ (\/ last.op # "Save"
           \/ ~Unterminated(IndexText(last.pre))
           \/ InSeq(TouchedId, IndexIds(last.pre)))
          => OtherIndexEntriesUnchanged(TouchedId)

\* C19 witness: Save of an unindexed ID a changed a's blob and the index,
\* while another ID b with a blob was indexed and stayed so.
FrameOtherIdsWitness ==
    /\ Keyed("Save")
    /\ ~Unterminated(IndexText(last.pre))
    /\ ~InSeq(last.arg.pk, IndexIds(last.pre))
    /\ BlobText(store, last.arg.pk) # BlobText(last.pre, last.arg.pk)
    /\ IndexText(store) # IndexText(last.pre)
    /\ \E b \in Ids \ {last.arg.pk} :
           /\ InSeq(b, IndexIds(last.pre))
           /\ BlobText(last.pre, b) # <<>>
           /\ InSeq(b, IndexIds(store))

\* ------------------------------------------------------------- C20
IsRead(op) == op \in {"FindById", "FindAll", "ExistsById"}
\* The read operation named op with argument arg, applied to the store st.
ReadAgain(st, op, arg) ==
    IF op = "FindById" THEN FindById(st, arg, NoFault)
    ELSE IF op = "ExistsById" THEN ExistsById(st, arg, NoFault)
    ELSE FindAll(st, NoFault)

\* C20: FindById, FindAll and ExistsById, from any store state, issue Blob
\* Store Read calls only, leave every entity blob and the index blob as they
\* were, and return the same result when repeated at once.
ReadsArePure ==
    IsRead(last.op)
    => /\ last.log # <<>>
       /\ \A i \in 1..Len(last.log) :
              last.log[i].call = "Read" /\ ~IsWrite(last.log[i])
       /\ store = last.pre
       /\ DOMAIN store = DOMAIN last.pre
       /\ LET again == ReadAgain(store, last.op, last.arg)
          IN again.ret = last.ret /\ again.st = store /\ again.log = last.log

\* C20 witness: FindAll on an index whose last line has no terminator,
\* listing an ID with a blob, returned an entity and left the index text as
\* it was.
ReadsArePureWitness ==
    /\ last.op = "FindAll"
    /\ Unterminated(IndexText(last.pre))
    /\ IndexText(last.pre) # FormatIds(IndexIds(last.pre))
    /\ Len(last.ret) >= 1
    /\ Len(last.log) >= 2
    /\ IndexText(store) = IndexText(last.pre)

=============================================================================
